---- MODULE Spec2Model ----
(***************************************************************************)
(* Model of rs485_encoder: the five line codes of src/src/encoding.rs     *)
(* (NRZ, NRZI, FM0, FM1, Manchester) as bit-exact operators over byte      *)
(* buffers, and the transport of src/src/main.rs: the set-up of the device *)
(* and the sending and receiving of buffers through it.                    *)
(*                                                                         *)
(* A byte is an integer in 0..255; a buffer (Vec<u8>, &[u8]) is a sequence *)
(* of bytes.  Rust indexes from 0, TLA+ sequences from 1: buf[k] of the    *)
(* source is buf[k + 1] here.  An index past the end of a Vec panics in    *)
(* Rust; every write is guarded by InBounds and a failed guard ends the    *)
(* call with status "panic".                                               *)
(***************************************************************************)
EXTENDS Integers, Sequences, FiniteSets, TLC

VARIABLES encoding_type, data, pc, encoded_data, received_data, ftdi,
          device, rx

vars == <<encoding_type, data, pc, encoded_data, received_data, ftdi,
          device, rx>>

----------------------------------------------------------------------------
(* Bounds of the model.                                                    *)

\* Longest byte sequence handed to encode or decode.
MaxLen == 3

\* Bytes used in the sequences of two and more bytes (every one of the 256
\* byte values is used in the one-byte sequences): all zeros, all ones, the
\* two bytes of the repository's own tests (0xA5, 0x5A), and two bytes that
\* mix cells a decoder accepts with cells it rejects (0x60, 0x01).
SampleBytes == {0, 255, 165, 90, 96, 1}

----------------------------------------------------------------------------
(* Bit arithmetic on u8.                                                   *)

\* The line level the encoders and decoders start from: `last_state = 1`.
HIGH == 1

RECURSIVE Pow2(_)
Pow2(n) == IF n = 0 THEN 1 ELSE 2 * Pow2(n - 1)

\* (byte >> sh) & 1
ShrAnd1(byte, sh) == (byte \div Pow2(sh)) % 2

\* byte | (v << sh), v a single bit
OrShl(byte, v, sh) ==
    IF v = 1 /\ ShrAnd1(byte, sh) = 0 THEN byte + Pow2(sh) ELSE byte

\* byte & !(1 << sh)
AndNotShl(byte, sh) ==
    IF ShrAnd1(byte, sh) = 1 THEN byte - Pow2(sh) ELSE byte

\* state ^ 1, state a single bit
Xor1(state) == 1 - state

\* vec![0u8; n]
ZeroVec(n) == [k \in 1..n |-> 0]

\* Whether buf[idx] exists (Rust panics on an index that does not).
InBounds(buf, idx) == idx >= 0 /\ idx < Len(buf)

\* (buf[i / 8] >> (7 - (i % 8))) & 1 : bit i of the buffer, MSB first.
GetBit(buf, i) == ShrAnd1(buf[(i \div 8) + 1], 7 - (i % 8))

\* buf[bit_idx / 8] |= v << (7 - (bit_idx % 8)); the buffer is left alone
\* when the index is out of bounds (the caller records the panic).
OrBitAt(buf, bit_idx, v) ==
    IF InBounds(buf, bit_idx \div 8)
    THEN [buf EXCEPT ![(bit_idx \div 8) + 1] = OrShl(@, v, 7 - (bit_idx % 8))]
    ELSE buf

\* buf[bit_idx / 8] &= !(1 << (7 - (bit_idx % 8)))
ClearBitAt(buf, bit_idx) ==
    IF InBounds(buf, bit_idx \div 8)
    THEN [buf EXCEPT ![(bit_idx \div 8) + 1] = AndNotShl(@, 7 - (bit_idx % 8))]
    ELSE buf

\* The value a call returns: status "ok" with the bytes, "err" with the bit
\* position of io::Error (InvalidData), or "panic" (index out of bounds).
Ok(bytes) == [status |-> "ok", bytes |-> bytes, pos |-> -1]
Err(pos) == [status |-> "err", bytes |-> <<>>, pos |-> pos]
Panic == [status |-> "panic", bytes |-> <<>>, pos |-> -1]

----------------------------------------------------------------------------
(* NRZ                                                                     *)

NRZClockRatio == 1

NRZEncode(input) == Ok(input)

NRZDecode(encoded) == Ok(encoded)

----------------------------------------------------------------------------
(* NRZI.  The two nested loops (bytes, then bits 7 down to 0) are one loop *)
(* over n = 8 * i + (7 - bit).                                             *)

NRZIClockRatio == 1

\* encoded = vec![0u8; input.len()]
NRZIEncodeAlloc(input) == ZeroVec(Len(input))

\* A faulty NRZIEncodeStep: the output bit is the level before the toggle
\* instead of the level after it.
NRZIEncodeStepEmitFirst(st, input, n) ==
    IF st.panic THEN st
    ELSE LET i == n \div 8
             bit == 7 - (n % 8)
             data_bit == ShrAnd1(input[i + 1], bit)
             ls == IF data_bit = 1 THEN Xor1(st.last_state) ELSE st.last_state
         IN  [encoded |-> IF st.last_state = 1 /\ InBounds(st.encoded, i)
                          THEN [st.encoded EXCEPT ![i + 1] = OrShl(@, 1, bit)]
                          ELSE st.encoded,
              last_state |-> ls,
              panic |-> st.last_state = 1 /\ ~InBounds(st.encoded, i)]

\* One pass of the inner loop of NRZIEncoding::encode.
NRZIEncodeStep(st, input, n) ==
    IF st.panic THEN st
    ELSE LET i == n \div 8
             bit == 7 - (n % 8)
             data_bit == ShrAnd1(input[i + 1], bit)
             ls == IF data_bit = 1 THEN Xor1(st.last_state) ELSE st.last_state
         IN  [encoded |-> IF ls = 1 /\ InBounds(st.encoded, i)
                          THEN [st.encoded EXCEPT ![i + 1] = OrShl(@, 1, bit)]
                          ELSE st.encoded,
              last_state |-> ls,
              panic |-> ls = 1 /\ ~InBounds(st.encoded, i)]

RECURSIVE NRZIEncodeLoop(_, _)
NRZIEncodeLoop(input, k) ==
    IF k = 0
    THEN [encoded |-> NRZIEncodeAlloc(input), last_state |-> HIGH, panic |-> FALSE]
    ELSE NRZIEncodeStep(NRZIEncodeLoop(input, k - 1), input, k - 1)

NRZIEncode(input) ==
    LET st == NRZIEncodeLoop(input, 8 * Len(input))
    IN  IF st.panic THEN Panic ELSE Ok(st.encoded)

\* One pass of the inner loop of NRZIEncoding::decode.
NRZIDecodeStep(st, encoded, n) ==
    IF st.panic THEN st
    ELSE LET i == n \div 8
             bit == 7 - (n % 8)
             current_state == ShrAnd1(encoded[i + 1], bit)
             decoded_bit == IF current_state = st.last_state THEN 0 ELSE 1
         IN  [decoded |-> IF InBounds(st.decoded, i)
                          THEN [st.decoded EXCEPT ![i + 1] = OrShl(@, decoded_bit, bit)]
                          ELSE st.decoded,
              last_state |-> current_state,
              panic |-> ~InBounds(st.decoded, i)]

RECURSIVE NRZIDecodeLoop(_, _)
NRZIDecodeLoop(encoded, k) ==
    IF k = 0
    THEN [decoded |-> ZeroVec(Len(encoded)), last_state |-> HIGH, panic |-> FALSE]
    ELSE NRZIDecodeStep(NRZIDecodeLoop(encoded, k - 1), encoded, k - 1)

NRZIDecode(encoded) ==
    LET st == NRZIDecodeLoop(encoded, 8 * Len(encoded))
    IN  IF st.panic THEN Panic ELSE Ok(st.decoded)

----------------------------------------------------------------------------
(* FM0                                                                     *)

FM0ClockRatio == 2

\* A faulty FM0EncodeAlloc: the buffer is sized for the input bits, not for
\* the two symbols of each.
FM0EncodeAllocShort(input) == ZeroVec(((Len(input) * 8) + 7) \div 8)

\* encoded = vec![0u8; (input_bits * 2 + 7) / 8], input_bits = input.len() * 8
FM0EncodeAlloc(input) == ZeroVec(((Len(input) * 8) * 2 + 7) \div 8)

\* A faulty FM0EncodeStep: a 0 bit does not toggle the carried state.
FM0EncodeStepNoToggle(st, input, i) ==
    IF st.panic THEN st
    ELSE LET bit == GetBit(input, i)
             ls == st.last_state
             first == IF bit = 1 THEN Xor1(st.last_state) ELSE ls
             b0 == st.bit_idx
             b1 == st.bit_idx + 1
         IN  [encoded |-> OrBitAt(OrBitAt(st.encoded, b0, first), b1, ls),
              last_state |-> ls,
              bit_idx |-> b1 + 1,
              panic |-> ~InBounds(st.encoded, b0 \div 8)
                           \/ ~InBounds(st.encoded, b1 \div 8)]

\* One pass of the loop of FM0Encoding::encode, over input bit i.
FM0EncodeStep(st, input, i) ==
    IF st.panic THEN st
    ELSE LET bit == GetBit(input, i)
             ls == IF bit = 1 THEN st.last_state ELSE Xor1(st.last_state)
             first == IF bit = 1 THEN Xor1(st.last_state) ELSE ls
             b0 == st.bit_idx
             b1 == st.bit_idx + 1
         IN  [encoded |-> OrBitAt(OrBitAt(st.encoded, b0, first), b1, ls),
              last_state |-> ls,
              bit_idx |-> b1 + 1,
              panic |-> ~InBounds(st.encoded, b0 \div 8)
                           \/ ~InBounds(st.encoded, b1 \div 8)]

RECURSIVE FM0EncodeLoop(_, _)
FM0EncodeLoop(input, k) ==
    IF k = 0
    THEN [encoded |-> FM0EncodeAlloc(input), last_state |-> HIGH,
          bit_idx |-> 0, panic |-> FALSE]
    ELSE FM0EncodeStep(FM0EncodeLoop(input, k - 1), input, k - 1)

FM0Encode(input) ==
    LET st == FM0EncodeLoop(input, Len(input) * 8)
    IN  IF st.panic THEN Panic ELSE Ok(st.encoded)

\* decoded = vec![0u8; encoded.len() / 2]
FM0DecodeAlloc(encoded) == ZeroVec(Len(encoded) \div 2)

\* One pass of the loop of FM0Encoding::decode: cell bit_idx, at bit
\* i = 2 * bit_idx of the encoded buffer.
FM0DecodeStep(st, encoded, bit_idx) ==
    IF st.status # "run" THEN st
    ELSE LET i == 2 * bit_idx
             first_bit == GetBit(encoded, i)
             second_bit == GetBit(encoded, i + 1)
         IN  IF ~InBounds(st.decoded, bit_idx \div 8)
             THEN [st EXCEPT !.status = "panic"]
             ELSE IF first_bit = second_bit
                  THEN [st EXCEPT !.decoded = ClearBitAt(st.decoded, bit_idx)]
                  ELSE [st EXCEPT !.decoded = OrBitAt(st.decoded, bit_idx, 1)]

\* The number of cells the decoders visit: (0..len * 8).step_by(2)
Cells(encoded) == (Len(encoded) * 8) \div 2

RECURSIVE FM0DecodeLoop(_, _)
FM0DecodeLoop(encoded, k) ==
    IF k = 0
    THEN [decoded |-> FM0DecodeAlloc(encoded), status |-> "run", pos |-> -1]
    ELSE FM0DecodeStep(FM0DecodeLoop(encoded, k - 1), encoded, k - 1)

\* What a decode loop's final state returns.
DecodeResult(st) ==
    CASE st.status = "run" -> Ok(st.decoded)
      [] st.status = "err" -> Err(st.pos)
      [] OTHER -> Panic

FM0Decode(encoded) == DecodeResult(FM0DecodeLoop(encoded, Cells(encoded)))

----------------------------------------------------------------------------
(* FM1                                                                     *)

FM1ClockRatio == 2

FM1EncodeAlloc(input) == ZeroVec(((Len(input) * 8) * 2 + 7) \div 8)

\* One pass of the loop of FM1Encoding::encode, over input bit i.
FM1EncodeStep(st, input, i) ==
    IF st.panic THEN st
    ELSE LET bit == GetBit(input, i)
             ls == IF bit = 1 THEN Xor1(st.last_state) ELSE st.last_state
             b0 == st.bit_idx
             b1 == st.bit_idx + 1
         IN  [encoded |-> OrBitAt(OrBitAt(st.encoded, b0, ls), b1, ls),
              last_state |-> ls,
              bit_idx |-> b1 + 1,
              panic |-> ~InBounds(st.encoded, b0 \div 8)
                           \/ ~InBounds(st.encoded, b1 \div 8)]

RECURSIVE FM1EncodeLoop(_, _)
FM1EncodeLoop(input, k) ==
    IF k = 0
    THEN [encoded |-> FM1EncodeAlloc(input), last_state |-> HIGH,
          bit_idx |-> 0, panic |-> FALSE]
    ELSE FM1EncodeStep(FM1EncodeLoop(input, k - 1), input, k - 1)

FM1Encode(input) ==
    LET st == FM1EncodeLoop(input, Len(input) * 8)
    IN  IF st.panic THEN Panic ELSE Ok(st.encoded)

FM1DecodeAlloc(encoded) == ZeroVec(Len(encoded) \div 2)

\* A faulty FM1DecodeStep: last_state is not updated after a cell.
FM1DecodeStepKeepState(st, encoded, bit_idx) ==
    IF st.status # "run" THEN st
    ELSE LET i == 2 * bit_idx
             first_bit == GetBit(encoded, i)
             second_bit == GetBit(encoded, i + 1)
         IN  IF first_bit # second_bit
             THEN [st EXCEPT !.status = "err", !.pos = i]
             ELSE IF ~InBounds(st.decoded, bit_idx \div 8)
                  THEN [st EXCEPT !.status = "panic"]
                  ELSE IF first_bit # st.last_state
                       THEN [st EXCEPT !.decoded = OrBitAt(st.decoded, bit_idx, 1)]
                       ELSE [st EXCEPT !.decoded = ClearBitAt(st.decoded, bit_idx)]

\* One pass of the loop of FM1Encoding::decode: cell bit_idx, at bit
\* i = 2 * bit_idx.  The error return comes before any write.
FM1DecodeStep(st, encoded, bit_idx) ==
    IF st.status # "run" THEN st
    ELSE LET i == 2 * bit_idx
             first_bit == GetBit(encoded, i)
             second_bit == GetBit(encoded, i + 1)
         IN  IF first_bit # second_bit
             THEN [st EXCEPT !.status = "err", !.pos = i]
             ELSE IF ~InBounds(st.decoded, bit_idx \div 8)
                  THEN [st EXCEPT !.status = "panic"]
                  ELSE IF first_bit # st.last_state
                       THEN [st EXCEPT !.decoded = OrBitAt(st.decoded, bit_idx, 1),
                                       !.last_state = second_bit]
                       ELSE [st EXCEPT !.decoded = ClearBitAt(st.decoded, bit_idx),
                                       !.last_state = second_bit]

RECURSIVE FM1DecodeLoop(_, _)
FM1DecodeLoop(encoded, k) ==
    IF k = 0
    THEN [decoded |-> FM1DecodeAlloc(encoded), last_state |-> HIGH,
          status |-> "run", pos |-> -1]
    ELSE FM1DecodeStep(FM1DecodeLoop(encoded, k - 1), encoded, k - 1)

FM1Decode(encoded) == DecodeResult(FM1DecodeLoop(encoded, Cells(encoded)))

----------------------------------------------------------------------------
(* Manchester                                                              *)

ManchesterClockRatio == 2

ManchesterEncodeAlloc(input) == ZeroVec(((Len(input) * 8) * 2 + 7) \div 8)

\* One pass of the loop of ManchesterEncoding::encode, over input bit i:
\* bit 1 -> (LOW, HIGH), bit 0 -> (HIGH, LOW).  `|= 0 << n` still indexes.
ManchesterEncodeStep(st, input, i) ==
    IF st.panic THEN st
    ELSE LET bit == GetBit(input, i)
             b0 == st.bit_idx
             b1 == st.bit_idx + 1
             first == IF bit = 1 THEN 0 ELSE 1
             second == IF bit = 1 THEN 1 ELSE 0
         IN  [encoded |-> OrBitAt(OrBitAt(st.encoded, b0, first), b1, second),
              bit_idx |-> b1 + 1,
              panic |-> ~InBounds(st.encoded, b0 \div 8)
                           \/ ~InBounds(st.encoded, b1 \div 8)]

RECURSIVE ManchesterEncodeLoop(_, _)
ManchesterEncodeLoop(input, k) ==
    IF k = 0
    THEN [encoded |-> ManchesterEncodeAlloc(input), bit_idx |-> 0, panic |-> FALSE]
    ELSE ManchesterEncodeStep(ManchesterEncodeLoop(input, k - 1), input, k - 1)

ManchesterEncode(input) ==
    LET st == ManchesterEncodeLoop(input, Len(input) * 8)
    IN  IF st.panic THEN Panic ELSE Ok(st.encoded)

ManchesterDecodeAlloc(encoded) == ZeroVec(Len(encoded) \div 2)

\* One pass of the loop of ManchesterEncoding::decode: cell bit_idx, at bit
\* i = 2 * bit_idx.  The two valid cells write, the others return the error.
ManchesterDecodeStep(st, encoded, bit_idx) ==
    IF st.status # "run" THEN st
    ELSE LET i == 2 * bit_idx
             first_bit == GetBit(encoded, i)
             second_bit == GetBit(encoded, i + 1)
         IN  IF first_bit = 0 /\ second_bit = 1
             THEN IF InBounds(st.decoded, bit_idx \div 8)
                  THEN [st EXCEPT !.decoded = OrBitAt(st.decoded, bit_idx, 1)]
                  ELSE [st EXCEPT !.status = "panic"]
             ELSE IF first_bit = 1 /\ second_bit = 0
                  THEN IF InBounds(st.decoded, bit_idx \div 8)
                       THEN [st EXCEPT !.decoded = ClearBitAt(st.decoded, bit_idx)]
                       ELSE [st EXCEPT !.status = "panic"]
                  ELSE [st EXCEPT !.status = "err", !.pos = i]

RECURSIVE ManchesterDecodeLoop(_, _)
ManchesterDecodeLoop(encoded, k) ==
    IF k = 0
    THEN [decoded |-> ManchesterDecodeAlloc(encoded), status |-> "run", pos |-> -1]
    ELSE ManchesterDecodeStep(ManchesterDecodeLoop(encoded, k - 1), encoded, k - 1)

ManchesterDecode(encoded) ==
    DecodeResult(ManchesterDecodeLoop(encoded, Cells(encoded)))

----------------------------------------------------------------------------
(* The selector: EncodingType::get_encoder and the calls through the trait. *)

EncodingType == {"NRZ", "NRZI", "FM0", "FM1", "Manchester"}

GetClockRatio(t) ==
    CASE t = "NRZ" -> NRZClockRatio
      [] t = "NRZI" -> NRZIClockRatio
      [] t = "FM0" -> FM0ClockRatio
      [] t = "FM1" -> FM1ClockRatio
      [] t = "Manchester" -> ManchesterClockRatio

Encode(t, input) ==
    CASE t = "NRZ" -> NRZEncode(input)
      [] t = "NRZI" -> NRZIEncode(input)
      [] t = "FM0" -> FM0Encode(input)
      [] t = "FM1" -> FM1Encode(input)
      [] t = "Manchester" -> ManchesterEncode(input)

Decode(t, encoded) ==
    CASE t = "NRZ" -> NRZDecode(encoded)
      [] t = "NRZI" -> NRZIDecode(encoded)
      [] t = "FM0" -> FM0Decode(encoded)
      [] t = "FM1" -> FM1Decode(encoded)
      [] t = "Manchester" -> ManchesterDecode(encoded)

----------------------------------------------------------------------------
(* u32 arithmetic of init_ftdi_rs485.  A u32 is kept as its two 16-bit     *)
(* halves, [hi, lo] standing for hi * 2^16 + lo, so that values up to      *)
(* 2^32 - 1 and the carry out of bit 31 are exact.                         *)

\* 2^16, the weight of the high half of a u32.
Half == 65536

U32(hi, lo) == [hi |-> hi, lo |-> lo]

\* The mathematical product a * ratio as [hi, lo] with hi unbounded.
ExactMul(a, ratio) ==
    LET lo_full == a.lo * ratio
    IN  [hi |-> a.hi * ratio + (lo_full \div Half), lo |-> lo_full % Half]

\* Whether a * ratio does not fit 32 bits.
MulOverflows(a, ratio) == ExactMul(a, ratio).hi >= Half

\* a.wrapping_mul(ratio): the product modulo 2^32.
WrappingMul(a, ratio) ==
    LET p == ExactMul(a, ratio) IN [hi |-> p.hi % Half, lo |-> p.lo]

\* Lowest and highest rate of (300..=12_000_000).
MinBaudRate == 300
MaxBaudRate == 12000000

\* (300..=12_000_000).contains(&v); the sum is only taken when v.hi is
\* small enough for v to be at most MaxBaudRate.
RangeContains(v) ==
    /\ v.hi <= MaxBaudRate \div Half
    /\ v.hi * Half + v.lo >= MinBaudRate
    /\ v.hi * Half + v.lo <= MaxBaudRate

NoFtdi == [status |-> "none", target_baud_rate |-> U32(0, 0),
           clock_frequency |-> U32(0, 0)]

\* init_ftdi_rs485(target_baud_rate, encoding_type), with the outcomes of
\* its environment as parameters: open_ok (Ft2232h::with_description),
\* overflow_checks (whether the build panics on arithmetic overflow, as a
\* debug build does, or wraps, as a release build does) and mpsse_ok
\* (initialize_mpsse).  clock_frequency is the rate handed to the device.
InitFtdiRs485Result(target_baud_rate, t, open_ok, overflow_checks, mpsse_ok) ==
    LET ratio == GetClockRatio(t)
        adjusted_baud_rate == WrappingMul(target_baud_rate, ratio)
        r == [status |-> "none", target_baud_rate |-> target_baud_rate,
              clock_frequency |-> U32(0, 0)]
    IN  IF ~open_ok THEN [r EXCEPT !.status = "open_failed"]
        ELSE IF MulOverflows(target_baud_rate, ratio) /\ overflow_checks
        THEN [r EXCEPT !.status = "overflow_panic"]
        ELSE IF ~RangeContains(adjusted_baud_rate)
        THEN [r EXCEPT !.status = "out_of_range"]
        ELSE IF ~mpsse_ok
        THEN [r EXCEPT !.status = "mpsse_failed",
                       !.clock_frequency = adjusted_baud_rate]
        ELSE [r EXCEPT !.status = "ok", !.clock_frequency = adjusted_baud_rate]

----------------------------------------------------------------------------
(* rs485_send and rs485_receive, and the device they talk to.  device is   *)
(* the bytes the device holds for the next read (MockFt2232h::buffer).     *)

\* usize::min
Min(a, b) == IF a <= b THEN a ELSE b

\* The first n elements of a sequence, and the rest: buffer[..n], drain(..n).
Take(q, n) == SubSeq(q, 1, n)
Drop(q, n) == SubSeq(q, n + 1, Len(q))

\* The MPSSE command byte of the write packet.
MpsseWriteCommand == 25

\* The packet of rs485_send: 0x19, the two bytes of encoded.len() - 1 (low
\* byte first), the encoded bytes.  For an empty buffer the subtraction
\* wraps (without overflow checks) and both length bytes are 0xFF.
SendPacket(encoded) ==
    LET len1 == Len(encoded) - 1
        lo == IF len1 < 0 THEN 255 ELSE len1 % 256
        hi == IF len1 < 0 THEN 255 ELSE (len1 \div 256) % 256
    IN  <<MpsseWriteCommand, lo, hi>> \o encoded

\* MockFt2232h::write: the buffer after the write, the packet's first three
\* bytes skipped; a packet shorter than that is refused.
MockWrite(buffer, packet) ==
    IF Len(packet) < 3
    THEN [ok |-> FALSE, buffer |-> buffer]
    ELSE [ok |-> TRUE, buffer |-> buffer \o Drop(packet, 3)]

\* rs485_send(ftdi, data, encoding_type): where the caller stands after the
\* call and what the device holds.  overflow_checks is whether the build
\* panics on the underflow of encoded_data.len() - 1.
Rs485SendResult(buffer, input, t, overflow_checks) ==
    LET encoded == Encode(t, input)
        w == MockWrite(buffer, SendPacket(encoded.bytes))
    IN  IF encoded.status # "ok" \/ (Len(encoded.bytes) = 0 /\ overflow_checks)
        THEN [pc |-> "send_panicked", encoded_data |-> encoded, buffer |-> buffer]
        ELSE IF ~w.ok
        THEN [pc |-> "send_failed", encoded_data |-> encoded, buffer |-> buffer]
        ELSE [pc |-> "sent", encoded_data |-> encoded, buffer |-> w.buffer]

\* MockFt2232h::read into a buffer of cap bytes: len = min of what the
\* device holds and cap; no byte at all is an error.
MockRead(buffer, cap) ==
    LET len == Min(Len(buffer), cap)
    IN  IF len = 0 THEN [ok |-> FALSE, len |-> 0] ELSE [ok |-> TRUE, len |-> len]

\* What ftdi.read(&mut encoded_data) can return for a device behind the
\* FtdiCommon trait: an error, or the number of bytes delivered, from none
\* to all the device holds that fit.  The mock's answer is one of them.
ReadOutcomes(buffer, cap) ==
    {MockRead(buffer, cap), [ok |-> FALSE, len |-> 0]}
        \cup {[ok |-> TRUE, len |-> n] : n \in 0..Min(Len(buffer), cap)}

\* encoded_data after the read: vec![0u8; cap] with the first len bytes
\* from the device.
ReadInto(buffer, cap, len) == Take(buffer, len) \o ZeroVec(cap - len)

\* A faulty ReceiveBuffer: the buffer is cut down to the bytes read.
ReceiveBufferTruncated(buffer, cap, len) == Take(buffer, len)

\* The buffer rs485_receive hands to decode: encoded_data, all of it.
ReceiveBuffer(buffer, cap, len) == ReadInto(buffer, cap, len)

\* rs485_receive(ftdi, max_len, encoding_type), read being the outcome of
\* ftdi.read: the io::Result returned.
Rs485ReceiveResult(buffer, max_len, t, read) ==
    LET cap == max_len * GetClockRatio(t)
        decoded == Decode(t, ReceiveBuffer(buffer, cap, read.len))
    IN  IF ~read.ok
        THEN [status |-> "read_failed", bytes |-> <<>>, pos |-> -1]
        ELSE IF read.len = 0
        THEN [status |-> "no_data", bytes |-> <<>>, pos |-> -1]
        ELSE IF decoded.status = "err"
        THEN [status |-> "decoding_failed", bytes |-> <<>>, pos |-> decoded.pos]
        ELSE decoded

\* What is known of the last rs485_receive: max_len and what read returned.
\* delivered is the bytes the read copied into encoded_data.
NoRx == [max_len |-> 0, read_ok |-> FALSE, bytes_read |-> 0, delivered |-> <<>>]

----------------------------------------------------------------------------
(* Inputs.                                                                 *)

\* Byte sequences: every one-byte sequence, and every sequence of at most
\* MaxLen bytes over SampleBytes (the empty one included).
RECURSIVE SeqsOver(_, _)
SeqsOver(S, n) ==
    IF n = 0 THEN {<<>>}
    ELSE LET shorter == SeqsOver(S, n - 1)
         IN  shorter \cup {Append(q, b) : q \in {r \in shorter : Len(r) = n - 1}, b \in S}

Inputs == SeqsOver(SampleBytes, MaxLen) \cup {<<b>> : b \in 0..255}

\* Byte sequences handed to rs485_send: at most MaxLen bytes over the two
\* bytes of the repository's tests and the zero byte.
SentBytes == {165, 90, 0}
SentInputs == SeqsOver(SentBytes, MaxLen)

\* Requested rates: around the two ends of the range for both clock ratios
\* (150, 300, 6_000_000, 12_000_000), and the same with bit 31 set.
RateHi == {0, 91, 183, 32768, 32859, 65535}
RateLo == {0, 149, 150, 299, 300, 6912, 6913, 36224, 36225, 65535}
Rates == {U32(h, l) : h \in RateHi, l \in RateLo}

----------------------------------------------------------------------------
(* The state machine.  encoding_type is the variant of the session; pc is  *)
(* where the caller stands.                                                *)

NoResult == [status |-> "none", bytes |-> <<>>, pos |-> -1]

Init ==
    /\ encoding_type \in EncodingType
    /\ data = <<>>
    /\ pc = "start"
    /\ encoded_data = NoResult
    /\ received_data = NoResult
    /\ ftdi = NoFtdi
    /\ device = <<>>
    /\ rx = NoRx

\* init_ftdi_rs485(target_baud_rate, encoding_type)
InitFtdiRs485 ==
    /\ pc = "start"
    /\ \E target_baud_rate \in Rates, open_ok \in BOOLEAN,
          overflow_checks \in BOOLEAN, mpsse_ok \in BOOLEAN :
          ftdi' = InitFtdiRs485Result(target_baud_rate, encoding_type,
                                      open_ok, overflow_checks, mpsse_ok)
    /\ pc' = "init"
    /\ UNCHANGED <<encoding_type, data, encoded_data, received_data, device, rx>>

\* encoder.encode(&data)
EncodeData ==
    /\ pc = "start"
    /\ \E x \in Inputs :
          /\ data' = x
          /\ encoded_data' = Encode(encoding_type, x)
    /\ pc' = "encoded"
    /\ UNCHANGED <<encoding_type, received_data, ftdi, device, rx>>

\* encoder.decode(&encoded_data) on what encode returned
DecodeEncoded ==
    /\ pc = "encoded"
    /\ encoded_data.status = "ok"
    /\ received_data' = Decode(encoding_type, encoded_data.bytes)
    /\ pc' = "roundtrip"
    /\ UNCHANGED <<encoding_type, data, encoded_data, ftdi, device, rx>>

\* decoder.decode(&e) on a received buffer e, whatever it holds
DecodeData ==
    /\ pc = "start"
    /\ \E e \in Inputs :
          /\ data' = e
          /\ received_data' = Decode(encoding_type, e)
    /\ pc' = "decoded"
    /\ UNCHANGED <<encoding_type, encoded_data, ftdi, device, rx>>

\* rs485_send(&mut ftdi, &data, encoding_type)
Rs485Send ==
    /\ pc = "start"
    /\ \E x \in SentInputs, overflow_checks \in BOOLEAN :
          LET r == Rs485SendResult(device, x, encoding_type, overflow_checks)
          IN  /\ data' = x
              /\ encoded_data' = r.encoded_data
              /\ device' = r.buffer
              /\ pc' = r.pc
    /\ UNCHANGED <<encoding_type, received_data, ftdi, rx>>

\* rs485_receive(&mut ftdi, max_len, encoding_type); the device gives up the
\* bytes it delivered.
Rs485Receive ==
    /\ pc \in {"start", "sent"}
    /\ \E max_len \in 0..MaxLen :
          \E read \in ReadOutcomes(device, max_len * GetClockRatio(encoding_type)) :
             /\ received_data' = Rs485ReceiveResult(device, max_len, encoding_type, read)
             /\ rx' = [max_len |-> max_len, read_ok |-> read.ok,
                       bytes_read |-> read.len,
                       delivered |-> Take(device, read.len)]
             /\ device' = Drop(device, read.len)
    /\ pc' = "received"
    /\ UNCHANGED <<encoding_type, data, encoded_data, ftdi>>

Next ==
    \/ InitFtdiRs485
    \/ EncodeData
    \/ DecodeEncoded
    \/ DecodeData
    \/ Rs485Send
    \/ Rs485Receive

Spec == Init /\ [][Next]_vars

----------------------------------------------------------------------------
(* Properties.                                                             *)

Ratio1 == {"NRZ", "NRZI"}
Ratio2 == {"FM0", "FM1", "Manchester"}

\* The cells of a buffer: cell c is the bits 2c and 2c + 1.
CellIndexes(buf) == 0..(4 * Len(buf) - 1)
FirstSymbol(buf, c) == GetBit(buf, 2 * c)
SecondSymbol(buf, c) == GetBit(buf, 2 * c + 1)

\* The level on the line before cell c: the second symbol of the cell
\* before it, HIGH before the first.
LevelBefore(buf, c) == IF c = 0 THEN HIGH ELSE SecondSymbol(buf, c - 1)

\* The least element of a non-empty set of numbers.
Least(S) == CHOOSE m \in S : \A n \in S : m <= n

\* C1: round-trip law.  For each of the five variants and every byte
\* sequence x, the empty one included, encode(x) succeeds and
\* decode(encode(x)) succeeds with exactly the bytes of x.
C1_RoundTrip ==
    /\ pc \in {"encoded", "roundtrip"} => encoded_data.status = "ok"
    /\ pc = "roundtrip" => received_data = Ok(data)

C1_Witness ==
    /\ pc = "roundtrip"
    /\ Len(data) = 2
    /\ encoded_data.bytes # data
    /\ received_data = Ok(data)

\* C2: length law.  encode(x) has exactly 2 * len(x) bytes for FM0, FM1 and
\* Manchester and exactly len(x) bytes for NRZ and NRZI, and no write of an
\* encoded bit falls outside that buffer (the call does not panic).
C2_LengthLaw ==
    pc = "encoded" =>
        /\ encoded_data.status = "ok"
        /\ encoding_type \in Ratio2 => Len(encoded_data.bytes) = 2 * Len(data)
        /\ encoding_type \in Ratio1 => Len(encoded_data.bytes) = Len(data)

C2_Witness ==
    /\ pc = "encoded"
    /\ encoding_type \in Ratio2
    /\ Len(data) >= 2
    /\ Len(encoded_data.bytes) = 2 * Len(data)

\* C3: the NRZ, NRZI and FM0 decoders are total.  For every byte sequence,
\* of an even or an odd number of bytes, decode returns a successful
\* result: no error, no panic.
C3_DecodersTotal ==
    (pc = "decoded" /\ encoding_type \in {"NRZ", "NRZI", "FM0"})
        => received_data.status = "ok"

\* The cells of a buffer that Manchester never produces: (0,0) and (1,1).
ManchesterBadCells(e) ==
    {c \in CellIndexes(e) : FirstSymbol(e, c) = SecondSymbol(e, c)}

\* C4: Manchester malformed-input detection.  For every byte sequence with
\* some cell (0,0) or (1,1), decode returns the decoding error, and its
\* position is the bit index of the first symbol of the earliest such cell.
C4_ManchesterDetects ==
    (pc = "decoded" /\ encoding_type = "Manchester"
        /\ ManchesterBadCells(data) # {})
        => received_data = Err(2 * Least(ManchesterBadCells(data)))

\* The cells of a buffer that FM1 never produces: the two symbols differ.
FM1BadCells(e) ==
    {c \in CellIndexes(e) : FirstSymbol(e, c) # SecondSymbol(e, c)}

\* C5: FM1 malformed-input detection.  For every byte sequence with some
\* cell whose symbols differ, decode returns the decoding error at the bit
\* index of the first symbol of the earliest such cell; the cells before it
\* cause no failure.
C5_FM1Detects ==
    (pc = "decoded" /\ encoding_type = "FM1" /\ FM1BadCells(data) # {})
        => received_data = Err(2 * Least(FM1BadCells(data)))

\* C6: FM1 self-clocking.  In the output of FM1 encode every cell boundary
\* has a transition: the first symbol of each cell differs from the second
\* symbol of the cell before it (from HIGH for the first cell).
C6_FM1BoundaryTransitions ==
    (pc = "encoded" /\ encoding_type = "FM1" /\ encoded_data.status = "ok")
        => \A c \in CellIndexes(encoded_data.bytes) :
              FirstSymbol(encoded_data.bytes, c) # LevelBefore(encoded_data.bytes, c)

\* C7: FM0 self-clocking.  In the output of FM0 encode every cell boundary
\* has a transition (the first symbol of each cell differs from the second
\* symbol of the cell before it, from HIGH for the first cell), and the
\* state carried after each cell is that cell's second symbol.
C7_FM0BoundaryTransitions ==
    (pc = "encoded" /\ encoding_type = "FM0")
        => /\ encoded_data.status = "ok"
           /\ Len(encoded_data.bytes) = 2 * Len(data)
           /\ \A c \in CellIndexes(encoded_data.bytes) :
                 /\ FirstSymbol(encoded_data.bytes, c)
                        # LevelBefore(encoded_data.bytes, c)
                 /\ FM0EncodeLoop(data, c + 1).last_state
                        = SecondSymbol(encoded_data.bytes, c)

C7_Witness ==
    /\ pc = "encoded"
    /\ encoding_type = "FM0"
    /\ data = <<165, 0>>
    /\ encoded_data.status = "ok"

\* C8: FM0 mid-cell rule.  A mid-cell transition signals a 0: the k-th cell
\* of FM0 encode has two differing symbols exactly when input bit k is 0,
\* and FM0 decode maps a cell with differing symbols to bit 0.
C8_FM0MidCellZero ==
    /\ (pc = "encoded" /\ encoding_type = "FM0" /\ encoded_data.status = "ok")
          => \A k \in 0..(8 * Len(data) - 1) :
                (FirstSymbol(encoded_data.bytes, k)
                    # SecondSymbol(encoded_data.bytes, k))
                <=> (GetBit(data, k) = 0)
    /\ (pc = "decoded" /\ encoding_type = "FM0" /\ received_data.status = "ok")
          => \A k \in CellIndexes(data) :
                (FirstSymbol(data, k) # SecondSymbol(data, k))
                => (GetBit(received_data.bytes, k) = 0)

\* C9 as stated: NRZI encode of the single byte 0xFF gives the byte
\* 10101010 (0xAA), and NRZI decode of that byte gives 0xFF.
C9_NRZIAllOnesAA ==
    /\ (pc = "encoded" /\ encoding_type = "NRZI" /\ data = <<255>>)
          => encoded_data = Ok(<<170>>)
    /\ (pc = "decoded" /\ encoding_type = "NRZI" /\ data = <<170>>)
          => received_data = Ok(<<255>>)

\* C9, amended: NRZI encode of the single byte 0xFF, starting from HIGH,
\* gives the single byte 01010101 (0x55): the line toggles before the first
\* bit is put out.  NRZI decode of that byte gives 0xFF.
C9_NRZIAllOnes55 ==
    /\ (pc \in {"encoded", "roundtrip"} /\ encoding_type = "NRZI" /\ data = <<255>>)
          => encoded_data = Ok(<<85>>)
    /\ (pc = "roundtrip" /\ encoding_type = "NRZI" /\ data = <<255>>)
          => received_data = Ok(<<255>>)
    /\ (pc = "decoded" /\ encoding_type = "NRZI" /\ data = <<85>>)
          => received_data = Ok(<<255>>)

C9_Witness ==
    /\ pc = "roundtrip"
    /\ encoding_type = "NRZI"
    /\ data = <<255>>
    /\ encoded_data = Ok(<<85>>)
    /\ received_data = Ok(<<255>>)

\* Whether an exact product [hi, lo] (hi unbounded) lies in 300..=12_000_000.
ExactInRange(p) ==
    /\ p.hi <= 183
    /\ p.hi * 65536 + p.lo >= 300
    /\ p.hi * 65536 + p.lo <= 12000000

\* C10: clock ratio law.  Once the device is open, init_ftdi_rs485 takes
\* the physical rate to be exactly requested_rate * clock_ratio (1 for NRZ
\* and NRZI, 2 for FM0, FM1 and Manchester), hands that rate to the device
\* when the exact product lies in 300..=12_000_000 and only then, and
\* rejects every other request with the out-of-range error.
C10_ClockRatioLaw ==
    (pc = "init" /\ ftdi.status # "open_failed") =>
        LET ratio == IF encoding_type \in Ratio1 THEN 1 ELSE 2
            lo_full == ftdi.target_baud_rate.lo * ratio
            exact == [hi |-> ftdi.target_baud_rate.hi * ratio + lo_full \div 65536,
                      lo |-> lo_full % 65536]
        IN  IF ExactInRange(exact)
            THEN /\ ftdi.status \in {"ok", "mpsse_failed"}
                 /\ ftdi.clock_frequency = exact
            ELSE ftdi.status = "out_of_range"

\* C11: rs485_receive decodes its whole zero-initialised buffer of
\* max_len * clock_ratio bytes, however many bytes the device delivered.
\* For every variant, a successful rs485_receive(max_len) returns exactly
\* max_len bytes, also when 0 < bytes_read < max_len * clock_ratio: the
\* bytes come from decoding what was read followed by the zero tail, not
\* from the bytes read alone.  With bytes_read = 0 it returns an error.
C11_ReceiveDecodesWholeBuffer ==
    pc = "received" =>
        LET cap == rx.max_len * (IF encoding_type \in Ratio1 THEN 1 ELSE 2)
            whole == rx.delivered \o [k \in 1..(cap - rx.bytes_read) |-> 0]
        IN  /\ received_data.status = "ok"
                 => /\ Len(received_data.bytes) = rx.max_len
                    /\ received_data = Decode(encoding_type, whole)
            /\ rx.bytes_read = 0
                 => received_data.status \in {"read_failed", "no_data"}

C11_Witness ==
    /\ pc = "received"
    /\ encoding_type \in Ratio2
    /\ received_data.status = "ok"
    /\ rx.bytes_read > 0
    /\ rx.bytes_read < 2 * rx.max_len
    /\ Len(received_data.bytes) = rx.max_len

====
